---- MODULE Spec2Model ----
(***************************************************************************)
(* ForgetYourPassword: deterministic password derivation.                  *)
(*                                                                         *)
(* PasswordCore.generate_password (core.py) validates its arguments,       *)
(* selects the secret, and calls PasswordGenerator.generate_password       *)
(* (password_generator.py), which joins the inputs, derives 64 bytes of    *)
(* key material and maps them to characters in four steps.  The mapping    *)
(* loops are modelled one iteration per step, so that the buffer can be    *)
(* observed between iterations.                                            *)
(*                                                                         *)
(* Python strings are sequences of one-character strings, bytes are        *)
(* sequences of 0..255, and indices keep Python's 0-based values (the      *)
(* sequences are read at index + 1).  The two library primitives, SHA-256  *)
(* and PBKDF2-HMAC-SHA256, are deterministic functions of their input      *)
(* bytes whose digests are computed by a small mixing function: the model  *)
(* keeps what the program relies on (a fixed-size digest that depends on   *)
(* every input byte), not the cryptographic values.                        *)
(***************************************************************************)
EXTENDS Integers, Sequences, FiniteSets

VARIABLES
    hardware,                 \* what the probes of HardwareDetector see
    pc,                       \* position of the call in progress
    calls_left,               \* calls the caller may still make
    master_key, user_keys, length, use_default_fingerprint,   \* arguments
    final_master_key, source, \* core.py: the selected secret
    combined_input,           \* password_generator.py: the joined inputs
    fingerprint_queries,      \* get_default_fingerprint calls of this call
    derivations,              \* _generate_pbkdf2 calls of this call
    key_material,             \* _map_to_password: derived bytes
    password,                 \* _map_to_password: the buffer
    key_index,                \* _map_to_password: cursor of steps 1 and 2
    set_index,                \* step 1: position in char_sets
    extended_key,             \* step 3: digest of the current round
    byte_index,               \* step 3: position in extended_key
    i,                        \* step 4: loop variable
    swaps,                    \* step 4: swaps performed by this call
    unshuffled,               \* the buffer as step 4 found it
    result,                   \* the dict the call returned
    history                   \* the calls returned so far, oldest first

vars == <<hardware, pc, calls_left, master_key, user_keys, length,
          use_default_fingerprint, final_master_key, source, combined_input,
          fingerprint_queries, derivations, key_material, password,
          key_index, set_index, extended_key, byte_index, i, swaps,
          unshuffled, result, history>>

----------------------------------------------------------------------------
(* Bounds of the model *)

\* requested lengths range over -MaxNegative .. MaxLength
MaxNegative == 3
MaxLength == 130
\* calls in one session of SessionSpec
MaxCalls == 3

----------------------------------------------------------------------------
(* Characters and bytes *)

Ascii ==
    <<" ", "!", "dquote", "#", "$", "%", "&", "'", "(", ")", "*", "+", ",", "-",
      ".", "/", "0", "1", "2", "3", "4", "5", "6", "7", "8", "9", ":", ";",
      "<", "=", ">", "?", "@", "A", "B", "C", "D", "E", "F", "G", "H", "I",
      "J", "K", "L", "M", "N", "O", "P", "Q", "R", "S", "T", "U", "V", "W",
      "X", "Y", "Z", "[", "backslash", "]", "^", "_", "backquote", "a", "b", "c", "d", "e",
      "f", "g", "h", "i", "j", "k", "l", "m", "n", "o", "p", "q", "r", "s",
      "t", "u", "v", "w", "x", "y", "z", "{", "|", "}", "~">>

\* code points 32..126; the three entries that are no single character stand
\* for the double quote, the backslash and the backquote, which no input of
\* the model contains
Ord(c) == 31 + (CHOOSE k \in 1..Len(Ascii) : Ascii[k] = c)

\* str.encode() of an ASCII string
Encode(s) == [k \in 1..Len(s) |-> Ord(s[k])]

Range(s) == {s[k] : k \in 1..Len(s)}

UPPERCASE_CHARS ==
    <<"A", "B", "C", "D", "E", "F", "G", "H", "I", "J", "K", "L", "M",
      "N", "O", "P", "Q", "R", "S", "T", "U", "V", "W", "X", "Y", "Z">>
LOWERCASE_CHARS ==
    <<"a", "b", "c", "d", "e", "f", "g", "h", "i", "j", "k", "l", "m",
      "n", "o", "p", "q", "r", "s", "t", "u", "v", "w", "x", "y", "z">>
DIGIT_CHARS ==
    <<"0", "1", "2", "3", "4", "5", "6", "7", "8", "9">>
SYMBOL_CHARS ==
    <<"!", "@", "#", "$", "%", "^", "&", "*", "(", ")", "_", "+", "-",
      "=", "[", "]", "{", "}", "|", ";", ":", ",", ".", "<", ">", "?">>

char_sets == <<UPPERCASE_CHARS, LOWERCASE_CHARS, DIGIT_CHARS, SYMBOL_CHARS>>

\* the combined alphabet with the space added
all_chars_and_space ==
    UPPERCASE_CHARS \o LOWERCASE_CHARS \o DIGIT_CHARS \o SYMBOL_CHARS \o <<" ">>

\* "".join(char_sets)
all_chars == UPPERCASE_CHARS \o LOWERCASE_CHARS \o DIGIT_CHARS \o SYMBOL_CHARS

----------------------------------------------------------------------------
(* Library primitives *)

DigestModulus == 1000003

Weight(k) == ((k * 7919 + 104729) % 9973) + 1

\* the sum over positions lo..hi of the weighted bytes
RECURSIVE WeightedSum(_, _, _)
WeightedSum(bytes, lo, hi) ==
    IF lo > hi THEN 0
    ELSE IF lo = hi THEN (bytes[lo] + 1) * Weight(lo)
    ELSE LET mid == (lo + hi) \div 2
         IN  WeightedSum(bytes, lo, mid) + WeightedSum(bytes, mid + 1, hi)

\* the running state after absorbing every byte, starting from h0
Absorb(h0, bytes) ==
    ((h0 % 2039) * 1009 + Len(bytes) * 613 + WeightedSum(bytes, 1, Len(bytes)))
        % DigestModulus

\* byte k of the output squeezed from state h
Squeeze(h, k) ==
    LET a == (h % 4093) + 97 * k
        b == (h \div 4093) + 31 * k
    IN  ((a * a) \div 7 + b * 13 + k) % 256

SHA256_DIGEST_SIZE == 32

\* hashlib.sha256(msg).digest()
SHA256(msg) ==
    LET h == Absorb(7, msg) IN [k \in 1..SHA256_DIGEST_SIZE |-> Squeeze(h, k)]

HexChars == <<"0", "1", "2", "3", "4", "5", "6", "7",
              "8", "9", "a", "b", "c", "d", "e", "f">>

\* hashlib.sha256(msg).hexdigest()
HexDigest(msg) ==
    LET d == SHA256(msg)
    IN  [k \in 1..(2 * SHA256_DIGEST_SIZE) |->
            LET b == d[(k + 1) \div 2]
            IN  HexChars[(IF k % 2 = 1 THEN b \div 16 ELSE b % 16) + 1]]

\* PBKDF2HMAC(algorithm=SHA256, length, salt, iterations).derive(data)
PBKDF2HMAC(len, salt, iterations, data) ==
    LET h == Absorb(Absorb(iterations % DigestModulus, salt), data)
    IN  [k \in 1..len |-> Squeeze(h, k + SHA256_DIGEST_SIZE)]

----------------------------------------------------------------------------
(* hardware_detector.py *)

\* "|".join(parts)
RECURSIVE Join(_, _)
Join(sep, parts) ==
    IF parts = <<>> THEN <<>>
    ELSE IF Len(parts) = 1 THEN parts[1]
    ELSE parts[1] \o sep \o Join(sep, Tail(parts))

\* Machines the program may run on: what _get_cpu_id and
\* _get_motherboard_serial return (the empty string also stands for None: the
\* code tests both with `if`), and platform.platform().
Hardwares ==
    { [cpu_id |-> <<"0">>, mb_serial |-> <<"S", "N", "7">>,
       platform |-> <<"L", "i", "n", "u", "x">>],
      [cpu_id |-> <<>>, mb_serial |-> <<>>,
       platform |-> <<"L", "i", "n", "u", "x">>] }

FINGERPRINT_LENGTH == 32

\* HardwareDetector.get_default_fingerprint
get_default_fingerprint(hw) ==
    LET cpu == IF hw.cpu_id # <<>>
               THEN << <<"c", "p", "u", ":">> \o hw.cpu_id >> ELSE <<>>
        mb  == IF hw.mb_serial # <<>>
               THEN << <<"m", "b", ":">> \o hw.mb_serial >> ELSE <<>>
        identifiers == IF cpu \o mb = <<>>
                       THEN << <<"s", "y", "s", ":">> \o hw.platform >>
                       ELSE cpu \o mb
        combined == Join(<<"|">>, identifiers)
    IN  SubSeq(HexDigest(Encode(combined)), 1, FINGERPRINT_LENGTH)

----------------------------------------------------------------------------
(* password_generator.py *)

DEFAULT_PBKDF2_ITERATIONS == 200000
KEY_MATERIAL_LENGTH == 64

\* the keywords joined by another separator than the one after the secret
CombinedInputComma(mk, uks) == (mk \o <<"|">>) \o Join(<<",">>, uks)

\* combined_input = f"{master_key}|" + "|".join(user_keys)
CombinedInput(mk, uks) == (mk \o <<"|">>) \o Join(<<"|">>, uks)

\* salt = hashlib.sha256(b"ForgetYourpassword-v1-salt").digest()
Salt ==
    SHA256(Encode(<<"F", "o", "r", "g", "e", "t", "Y", "o", "u", "r", "p", "a",
                    "s", "s", "w", "o", "r", "d", "-", "v", "1", "-", "s", "a",
                    "l", "t">>))

\* PasswordGenerator._generate_pbkdf2
generate_pbkdf2(input_data) ==
    PBKDF2HMAC(KEY_MATERIAL_LENGTH, Salt, DEFAULT_PBKDF2_ITERATIONS,
               Encode(input_data))

\* the buffer of the previous call kept
StaleBuffer == password

\* password = []
NewBuffer == <<>>

\* step 1 drawing from the combined alphabet instead of the class
ClassCharAnyClass(set, byte) == all_chars[(byte % Len(all_chars)) + 1]

\* step 1: char_set[key_material[key_index] % len(char_set)]
ClassChar(set, byte) == char_sets[set + 1][(byte % Len(char_sets[set + 1])) + 1]

\* steps 2 and 3: all_chars[byte % len(all_chars)]
AllChar(byte) == all_chars[(byte % Len(all_chars)) + 1]

\* the loop tests off by one
ShortByOne(buf, n) == Len(buf) + 1 < n

\* the loop tests of steps 2 and 3: len(password) < length
Short(buf, n) == Len(buf) < n

\* the counter encoded little-endian
ToBytes4Little(n) ==
    << n % 256, (n \div 256) % 256, (n \div 65536) % 256, (n \div 16777216) % 256 >>

\* n.to_bytes(4, 'big')
ToBytes4(n) ==
    << (n \div 16777216) % 256, (n \div 65536) % 256, (n \div 256) % 256, n % 256 >>

\* step 3: hashlib.sha256(key_material + len(password).to_bytes(4, 'big'))
ExtendedKey(km, buf) == SHA256(km \o ToBytes4(Len(buf)))

\* step 4: j = key_material[i] % len(password)
SwapTarget(km, k, buf) == km[k + 1] % Len(buf)

\* the first assignment of a swap alone: position a overwritten
Overwrite(buf, a, b) == [buf EXCEPT ![a + 1] = buf[b + 1]]

\* step 4: password[i], password[j] = password[j], password[i]
Swap(buf, a, b) == [buf EXCEPT ![a + 1] = buf[b + 1], ![b + 1] = buf[a + 1]]

\* password[:length], Python's slice: a negative bound counts from the end
Slice(buf, n) ==
    LET stop == IF n >= 0 THEN n ELSE Len(buf) + n
        last == IF stop > Len(buf) THEN Len(buf) ELSE IF stop < 0 THEN 0 ELSE stop
    IN  SubSeq(buf, 1, last)

----------------------------------------------------------------------------
(* core.py: the checks at the head of PasswordCore.generate_password *)

\* the flag tested without its negation
MasterKeyMissingFlagSet(mk, fp) == mk = <<>> /\ fp

\* if not master_key and not use_default_fingerprint
MasterKeyMissing(mk, fp) == mk = <<>> /\ ~fp

\* if not user_keys
UserKeysMissing(uks) == uks = <<>>

----------------------------------------------------------------------------
(* The callers *)

Lengths == (0 - MaxNegative)..MaxLength

MasterKeys == { <<>>, <<"k">> }

KeywordLists == { <<>>, << <<>> >>, << <<"a">> >>, << <<"a">>, <<"b">> >> }

\* every call a single-call caller may make
Requests ==
    [master_key : MasterKeys, user_keys : KeywordLists, length : Lengths,
     use_default_fingerprint : BOOLEAN]

\* core.py 43: use_default_fingerprint: bool = True
DEFAULT_USE_FINGERPRINT == TRUE

\* a call that leaves use_default_fingerprint out
RequestByDefault(mk, uks, n) ==
    [master_key |-> mk, user_keys |-> uks, length |-> n,
     use_default_fingerprint |-> DEFAULT_USE_FINGERPRINT]

Request(mk, uks, n, fp) ==
    [master_key |-> mk, user_keys |-> uks, length |-> n,
     use_default_fingerprint |-> fp]

\* the calls of a session: keyword lists that differ only in where the "|"
\* falls, a short and a long password, both secret sources (one call leaves
\* the flag out), and the two rejected calls
SessionRequests ==
    { Request(<<"k">>, << <<"a", "|", "b">> >>, 97, FALSE),
      Request(<<"k">>, << <<"a">>, <<"b">> >>, 97, FALSE),
      Request(<<"k">>, << <<"a">>, <<"b">> >>, 5, FALSE),
      Request(<<"k">>, << <<"a">>, <<"b">> >>, 5, TRUE),
      RequestByDefault(<<>>, << <<"a">>, <<"b">> >>, 5),
      Request(<<>>, << <<"a">>, <<"b">> >>, 5, FALSE),
      Request(<<"k">>, <<>>, 5, FALSE) }

NoResult == [success |-> FALSE, error |-> "no call yet"]

Frame0 ==
    /\ pc = "idle"
    /\ master_key = <<>> /\ user_keys = <<>> /\ length = 0
    /\ use_default_fingerprint = FALSE
    /\ final_master_key = <<>> /\ source = "none" /\ combined_input = <<>>
    /\ fingerprint_queries = 0 /\ derivations = 0
    /\ key_material = <<>> /\ password = <<>> /\ key_index = 0
    /\ set_index = 0 /\ extended_key = <<>> /\ byte_index = 0
    /\ i = 0 /\ swaps = 0 /\ unshuffled = <<>>
    /\ result = NoResult
    /\ history = <<>>

\* one call on a fresh PasswordCore
Init == hardware \in Hardwares /\ calls_left = 1 /\ Frame0

\* a session of MaxCalls calls on one PasswordCore
SessionInit == hardware \in Hardwares /\ calls_left = MaxCalls /\ Frame0

args == <<master_key, user_keys, length, use_default_fingerprint>>
selection == <<final_master_key, source, combined_input>>
mapper == <<key_material, password, key_index, set_index, extended_key,
            byte_index, i, swaps, unshuffled>>

\* what the caller keeps of a returned call
Entry(r, secret, combined, res) ==
    [master_key |-> r.master_key, user_keys |-> r.user_keys,
     length |-> r.length,
     use_default_fingerprint |-> r.use_default_fingerprint,
     secret |-> secret, combined_input |-> combined, result |-> res]

----------------------------------------------------------------------------
(* PasswordCore.generate_password *)

\* no call is in progress and the caller may make one
Callable == pc \in {"idle", "returned"} /\ calls_left > 0

Enter(r) ==
    /\ calls_left' = calls_left - 1
    /\ master_key' = r.master_key
    /\ user_keys' = r.user_keys
    /\ length' = r.length
    /\ use_default_fingerprint' = r.use_default_fingerprint
    /\ UNCHANGED hardware

Fail(r, message) ==
    LET res == [success |-> FALSE, error |-> message] IN
    /\ result' = res
    /\ history' = Append(history, Entry(r, <<>>, <<>>, res))
    /\ fingerprint_queries' = 0
    /\ derivations' = 0
    /\ pc' = "returned"
    /\ UNCHANGED <<selection, mapper>>

\* core.py 63-64
RejectMasterKey(requests) ==
    /\ Callable
    /\ \E r \in requests :
        /\ Enter(r)
        /\ MasterKeyMissing(r.master_key, r.use_default_fingerprint)
        /\ Fail(r, "Master key required")

\* core.py 66-67
RejectUserKeys(requests) ==
    /\ Callable
    /\ \E r \in requests :
        /\ Enter(r)
        /\ ~MasterKeyMissing(r.master_key, r.use_default_fingerprint)
        /\ UserKeysMissing(r.user_keys)
        /\ Fail(r, "At least one user key required")

\* the manual key preferred whenever one is given
SelectSecretPreferManual(mk, fp, hw) ==
    IF mk # <<>> THEN mk ELSE get_default_fingerprint(hw)

\* core.py 70-75: final_master_key
SelectSecret(mk, fp, hw) == IF fp THEN get_default_fingerprint(hw) ELSE mk

\* core.py 70-75: source
SelectSource(fp) == IF fp THEN "default_fingerprint" ELSE "manual_master_key"

\* core.py 69-80 and password_generator.py 44-48, 94-105: the secret is
\* selected, the key material derived, and _map_to_password entered
Derive(requests) ==
    /\ Callable
    /\ \E r \in requests :
        /\ Enter(r)
        /\ ~MasterKeyMissing(r.master_key, r.use_default_fingerprint)
        /\ ~UserKeysMissing(r.user_keys)
        /\ LET secret == SelectSecret(r.master_key, r.use_default_fingerprint,
                                      hardware)
           IN  /\ final_master_key' = secret
               /\ source' = SelectSource(r.use_default_fingerprint)
               /\ fingerprint_queries' = IF r.use_default_fingerprint THEN 1 ELSE 0
               /\ combined_input' = CombinedInput(secret, r.user_keys)
               /\ key_material' = generate_pbkdf2(CombinedInput(secret, r.user_keys))
        /\ derivations' = 1
        /\ password' = NewBuffer
        /\ key_index' = 0
        /\ set_index' = 0
        /\ swaps' = 0
        /\ pc' = "step1"
        /\ UNCHANGED <<extended_key, byte_index, i, unshuffled, result, history>>

----------------------------------------------------------------------------
(* PasswordGenerator._map_to_password *)

running == <<hardware, calls_left, args, selection, fingerprint_queries,
             derivations, key_material, result, history>>

\* 106-110: one iteration of `for char_set in char_sets`
EnsureClass ==
    /\ pc = "step1"
    /\ IF key_index < Len(key_material)
       THEN /\ password' = Append(password,
                                  ClassChar(set_index, key_material[key_index + 1]))
            /\ key_index' = key_index + 1
       ELSE UNCHANGED <<password, key_index>>
    /\ set_index' = set_index + 1
    /\ pc' = IF set_index + 1 = Len(char_sets) THEN "step2" ELSE "step1"
    /\ UNCHANGED <<running, extended_key, byte_index, i, swaps, unshuffled>>

\* 113-116: one iteration of the fill loop
Fill ==
    /\ pc = "step2"
    /\ Short(password, length) /\ key_index < Len(key_material)
    /\ password' = Append(password, AllChar(key_material[key_index + 1]))
    /\ key_index' = key_index + 1
    /\ UNCHANGED <<running, pc, set_index, extended_key, byte_index, i, swaps,
                   unshuffled>>

\* 113: the fill loop's test fails
FillDone ==
    /\ pc = "step2"
    /\ ~(Short(password, length) /\ key_index < Len(key_material))
    /\ pc' = "step3"
    /\ UNCHANGED <<running, password, key_index, set_index, extended_key,
                   byte_index, i, swaps, unshuffled>>

\* 119-121: a round of the hash chain starts
ExtendRound ==
    /\ pc = "step3"
    /\ Short(password, length)
    /\ extended_key' = ExtendedKey(key_material, password)
    /\ byte_index' = 0
    /\ pc' = "step3_for"
    /\ UNCHANGED <<running, password, key_index, set_index, i, swaps, unshuffled>>

\* 121-125: one byte of the digest is appended
ExtendAppend ==
    /\ pc = "step3_for"
    /\ byte_index < Len(extended_key)
    /\ Short(password, length)
    /\ password' = Append(password, AllChar(extended_key[byte_index + 1]))
    /\ byte_index' = byte_index + 1
    /\ UNCHANGED <<running, pc, key_index, set_index, extended_key, i, swaps,
                   unshuffled>>

\* 122-123: break
ExtendBreak ==
    /\ pc = "step3_for"
    /\ byte_index < Len(extended_key)
    /\ ~Short(password, length)
    /\ pc' = "step3"
    /\ UNCHANGED <<running, password, key_index, set_index, extended_key,
                   byte_index, i, swaps, unshuffled>>

\* 121: the digest is exhausted
ExtendExhausted ==
    /\ pc = "step3_for"
    /\ byte_index = Len(extended_key)
    /\ pc' = "step3"
    /\ UNCHANGED <<running, password, key_index, set_index, extended_key,
                   byte_index, i, swaps, unshuffled>>

\* 119, 128: the chain's test fails and the shuffle loop starts
ExtendDone ==
    /\ pc = "step3"
    /\ ~Short(password, length)
    /\ i' = 0
    /\ unshuffled' = password
    /\ pc' = "step4"
    /\ UNCHANGED <<running, password, key_index, set_index, extended_key,
                   byte_index, swaps>>

\* 128-131: an iteration of the shuffle that swaps
ShuffleSwap ==
    /\ pc = "step4"
    /\ i < Len(password)
    /\ i < Len(key_material)
    /\ password' = Swap(password, i, SwapTarget(key_material, i, password))
    /\ swaps' = swaps + 1
    /\ i' = i + 1
    /\ UNCHANGED <<running, pc, key_index, set_index, extended_key, byte_index,
                   unshuffled>>

\* 128-129: an iteration of the shuffle past the key material
ShuffleSkip ==
    /\ pc = "step4"
    /\ i < Len(password)
    /\ ~(i < Len(key_material))
    /\ i' = i + 1
    /\ UNCHANGED <<running, pc, password, key_index, set_index, extended_key,
                   byte_index, swaps, unshuffled>>

\* password_generator.py 133 and core.py 82-88
Return ==
    /\ pc = "step4"
    /\ i = Len(password)
    /\ LET pw  == Slice(password, length)
           res == [success |-> TRUE, password |-> pw, length |-> Len(pw),
                   source |-> source, keys_used |-> Len(user_keys)]
       IN  /\ result' = res
           /\ history' =
                 Append(history,
                        Entry(Request(master_key, user_keys, length,
                                      use_default_fingerprint),
                              final_master_key, combined_input, res))
    /\ pc' = "returned"
    /\ UNCHANGED <<hardware, calls_left, args, selection, fingerprint_queries,
                   derivations, mapper>>

Map ==
    \/ EnsureClass
    \/ Fill
    \/ FillDone
    \/ ExtendRound
    \/ ExtendAppend
    \/ ExtendBreak
    \/ ExtendExhausted
    \/ ExtendDone
    \/ ShuffleSwap
    \/ ShuffleSkip
    \/ Return

Next ==
    \/ RejectMasterKey(Requests)
    \/ RejectUserKeys(Requests)
    \/ Derive(Requests)
    \/ Map

Spec == Init /\ [][Next]_vars

SessionNext ==
    \/ RejectMasterKey(SessionRequests)
    \/ RejectUserKeys(SessionRequests)
    \/ Derive(SessionRequests)
    \/ Map

SessionSpec == SessionInit /\ [][SessionNext]_vars

----------------------------------------------------------------------------
(* Properties *)

\* the range of lengths the command line accepts: 8 <= length <= 128
CLI_MIN_LENGTH == 8
CLI_MAX_LENGTH == 128

\* a call passed the checks, ran the mapping and returned
Succeeded == pc = "returned" /\ derivations = 1

\* C1: for every requested length in 8..128, boundaries included, the mapping
\* returns a string of exactly `length` characters, and generate_password
\* reports success with metadata length equal to the requested length.
LengthContract ==
    (Succeeded /\ length >= CLI_MIN_LENGTH /\ length <= CLI_MAX_LENGTH)
        => /\ result.success
           /\ Len(result.password) = length
           /\ result.password = Slice(password, length)
           /\ Len(password) = length
           /\ result.length = length

LengthContractWitness ==
    /\ Succeeded /\ result.success
    /\ length = CLI_MAX_LENGTH /\ Len(result.password) = CLI_MAX_LENGTH

HasCharOf(pw, class) == \E k \in 1..Len(pw) : pw[k] \in Range(class)

\* C2: for every requested length >= 4, the returned password holds at least
\* one uppercase letter, one lowercase letter, one digit and one symbol of the
\* fixed symbol set.
ClassCoverage ==
    (Succeeded /\ length >= 4)
        => /\ result.success
           /\ HasCharOf(result.password, UPPERCASE_CHARS)
           /\ HasCharOf(result.password, LOWERCASE_CHARS)
           /\ HasCharOf(result.password, DIGIT_CHARS)
           /\ HasCharOf(result.password, SYMBOL_CHARS)

ClassCoverageWitness ==
    /\ Succeeded /\ result.success /\ length = 4
    /\ Len(result.password) = 4
    /\ swaps = 4

Alphabet ==
    Range(UPPERCASE_CHARS) \cup Range(LOWERCASE_CHARS) \cup Range(DIGIT_CHARS)
        \cup Range(SYMBOL_CHARS)

\* every character of the buffer and of a returned password is in the alphabet
Closed ==
    /\ \A k \in 1..Len(password) : password[k] \in Alphabet
    /\ (pc = "returned" /\ result.success)
          => \A k \in 1..Len(result.password) : result.password[k] \in Alphabet

\* C3, as claimed: for every key material and every requested length, every
\* character of the returned password, and of the buffer at every point of the
\* four steps, is one of the 94 characters of the combined alphabet
\* (uppercase, lowercase, digits, fixed symbols).
AlphabetClosure94 ==
    Succeeded => (Closed /\ Cardinality(Alphabet) = 94)

\* C3, amended: the combined alphabet has 88 characters (26 + 26 + 10 + 26);
\* every character of the returned password, and of the buffer at every point
\* of the four steps, is one of them, for every key material and every length.
AlphabetClosure ==
    /\ Cardinality(Alphabet) = 88
    /\ Closed

AlphabetClosureWitness ==
    /\ Succeeded /\ result.success
    /\ Len(result.password) > KEY_MATERIAL_LENGTH + SHA256_DIGEST_SIZE
    /\ \A k \in 1..Len(result.password) : result.password[k] \in Alphabet

\* two returned calls with the same secret, keywords and length
SameInputs(a, b) ==
    /\ a.result.success /\ b.result.success
    /\ a.secret = b.secret
    /\ a.user_keys = b.user_keys
    /\ a.length = b.length

Deterministic ==
    \A a, b \in 1..Len(history) :
        SameInputs(history[a], history[b])
            => history[a].result.password = history[b].result.password

\* C4: generate_password is a function of its inputs alone: any two calls
\* with the same secret source, keyword list and length return the same
\* password, whatever calls were made before or between them, and no call
\* changes what the PasswordCore and its collaborators hold.
PureDerivation == [][hardware' = hardware /\ Deterministic']_vars

PureDerivationWitness ==
    \E a, b, c \in 1..Len(history) :
        /\ a < c /\ c < b
        /\ SameInputs(history[a], history[b])
        /\ history[a].length > KEY_MATERIAL_LENGTH
        /\ history[c].result.success
        /\ history[c].length # history[a].length
        /\ history[a].result.password = history[b].result.password

\* C5, as claimed: a derivation requested with length 0 or a negative length
\* fails with an error; it never returns a success result with a password.
NonPositiveLengthFails ==
    (pc = "returned" /\ length < 1) => ~result.success

Blank(s) == \A k \in 1..Len(s) : s[k] = " "

\* C6, as claimed: generate_password fails both for an empty keyword list and
\* for a list with no entry that is non-empty after trimming whitespace; no
\* password is derived in either case.
BlankKeywordsFail ==
    (pc = "returned" /\ \A k \in 1..Len(user_keys) : Blank(user_keys[k]))
        => (~result.success /\ derivations = 0)

\* C7: a call with an empty master key and use_default_fingerprint = false
\* returns the failure result "Master key required", for every keyword list
\* and length, without querying the fingerprint provider and without running
\* the key derivation or any step of the mapping.
MissingSecretReported ==
    (calls_left < 1 /\ master_key = <<>> /\ ~use_default_fingerprint)
        => /\ pc = "returned"
           /\ ~result.success
           /\ result.error = "Master key required"
           /\ fingerprint_queries = 0
           /\ derivations = 0
           /\ Len(history) = 1
           /\ history[1].combined_input = <<>>

MissingSecretReportedWitness ==
    /\ pc = "returned"
    /\ calls_left < 1 /\ master_key = <<>> /\ ~use_default_fingerprint
    /\ user_keys # <<>> /\ length >= CLI_MIN_LENGTH
    /\ ~result.success

\* the positions of "|" in s, and the pieces of s between them
Pipes(s) == {k \in 1..Len(s) : s[k] = "|"}

Pieces(s) ==
    LET cuts == Pipes(s)
        nth(m) == IF m = 0 THEN 0
                  ELSE IF m > Cardinality(cuts) THEN Len(s) + 1
                  ELSE CHOOSE q \in cuts : Cardinality({r \in cuts : r < q}) = m - 1
    IN  [m \in 1..(Cardinality(cuts) + 1) |-> SubSeq(s, nth(m - 1) + 1, nth(m) - 1)]

\* the pieces of the secret and of every keyword, in order
RECURSIVE AllPieces(_)
AllPieces(strings) ==
    IF strings = <<>> THEN <<>>
    ELSE Pieces(Head(strings)) \o AllPieces(Tail(strings))

\* two calls whose secret and keywords differ at most in where "|" falls
SamePieces(a, b) ==
    AllPieces(<<a.secret>> \o a.user_keys) = AllPieces(<<b.secret>> \o b.user_keys)

\* C8: the combined input is the secret, "|", and the keywords joined by "|",
\* nothing escaped: two calls whose secret and keywords differ only in where
\* the "|" boundaries fall have the same combined input and, for the same
\* length, the same password.
PipeBoundariesCollide ==
    \A a, b \in 1..Len(history) :
        (/\ history[a].result.success /\ history[b].result.success
         /\ SamePieces(history[a], history[b]))
            => /\ history[a].combined_input = history[b].combined_input
               /\ history[a].combined_input =
                     (history[a].secret \o <<"|">>)
                         \o Join(<<"|">>, history[a].user_keys)
               /\ history[a].length = history[b].length
                     => history[a].result.password = history[b].result.password

PipeBoundariesCollideWitness ==
    \E a, b \in 1..Len(history) :
        /\ history[a].result.success /\ history[b].result.success
        /\ history[a].user_keys = << <<"a", "|", "b">> >>
        /\ history[b].user_keys = << <<"a">>, <<"b">> >>
        /\ history[a].secret = history[b].secret
        /\ history[a].length = history[b].length
        /\ history[a].result.password = history[b].result.password

\* During a round of step 3: the round started with `start` characters, its
\* digest is SHA-256 of the key material followed by `start` as four
\* big-endian bytes, and the characters appended so far are the digest's bytes
\* in order, each taken modulo m into all_chars.
ChainRound(m) ==
    pc = "step3_for" =>
        LET start == Len(password) - byte_index IN
        /\ length > KEY_MATERIAL_LENGTH
        /\ start >= KEY_MATERIAL_LENGTH
        /\ (start - KEY_MATERIAL_LENGTH) % SHA256_DIGEST_SIZE = 0
        /\ start < 256
        /\ extended_key = SHA256(key_material \o <<0, 0, 0, start>>)
        /\ Len(password) <= length
        /\ \A k \in 1..byte_index :
              LET index == extended_key[k] % m IN
              /\ index < Len(all_chars)
              /\ password[start + k] = all_chars[index + 1]

\* step 3 computes no digest for a length of at most 64, and leaves the buffer
\* at exactly `length` characters otherwise
ChainStops ==
    /\ length <= KEY_MATERIAL_LENGTH => extended_key = <<>>
    /\ (pc \in {"step4", "returned"} /\ derivations = 1
            /\ length > KEY_MATERIAL_LENGTH)
          => Len(password) = length

\* C9, as claimed: step 3 runs only when the requested length exceeds 64; each
\* round hashes the key material followed by the 4-byte big-endian password
\* length at the start of the round (64, then 96, ...), appends the digest's
\* bytes in order, each mapped mod 94 into all_chars, and stops at exactly
\* `length` characters.
HashChain94 == ChainRound(94) /\ ChainStops

\* C9, amended: as claimed, except that each digest byte is mapped modulo 88,
\* the length of all_chars.
HashChain == ChainRound(88) /\ ChainStops

HashChainWitness ==
    /\ pc = "step3_for"
    /\ Len(password) - byte_index = KEY_MATERIAL_LENGTH + SHA256_DIGEST_SIZE
    /\ byte_index > 1
    /\ Len(password) = length

\* One step of the shuffle over a buffer of n characters: it starts at i = 0,
\* advances i by one, swaps positions i and key_material[i] mod n while
\* i < 64, and leaves the buffer alone from i = 64 on; the call returns after
\* min(n, 64) swaps.
ShuffleStep(n) ==
    /\ (pc # "step4" /\ pc' = "step4") => (i' = 0 /\ swaps = 0)
    /\ (pc = "step4" /\ pc' = "step4") =>
          /\ i' = i + 1
          /\ Len(password') = Len(password)
          /\ IF i < KEY_MATERIAL_LENGTH
             THEN LET j == key_material[i + 1] % n IN
                  /\ j < Len(password)
                  /\ swaps' = swaps + 1
                  /\ password'[i + 1] = password[j + 1]
                  /\ password'[j + 1] = password[i + 1]
                  /\ \A k \in 1..Len(password) :
                        (k # i + 1 /\ k # j + 1) => password'[k] = password[k]
             ELSE password' = password /\ swaps' = swaps
    /\ (pc = "step4" /\ pc' = "returned") =>
          /\ swaps = (IF n < KEY_MATERIAL_LENGTH THEN n ELSE KEY_MATERIAL_LENGTH)
          /\ i = Len(password)
          /\ \A c \in Range(password) \cup Range(unshuffled) :
                Cardinality({k \in 1..Len(password) : password[k] = c})
                  = Cardinality({k \in 1..Len(unshuffled) : unshuffled[k] = c})

\* C10, as claimed: for every requested length >= 1, step 4 performs exactly
\* min(length, 64) swap steps in increasing i from 0, the i-th swapping
\* positions i and key_material[i] mod length; positions >= 64 are never a
\* swap source, and the step only permutes the buffer.
ShuffleByLength == [][length >= 1 => ShuffleStep(length)]_vars

\* C10, amended: step 4 works on the buffer of n = max(length, 4) characters
\* that steps 1 to 3 built (n = length for every length >= 4): for every
\* requested length it performs exactly min(n, 64) swap steps in increasing i
\* from 0, the i-th swapping positions i and key_material[i] mod n; positions
\* >= 64 are never a swap source, and the step only permutes the buffer.
ShuffleByBuffer == [][ShuffleStep(IF length >= 4 THEN length ELSE 4)]_vars

ShuffleByBufferWitness ==
    /\ pc = "returned" /\ result.success
    /\ length >= 1 /\ length < 4
    /\ Len(password) = 4
    /\ swaps = 4

\* a returned call used the secret its flag selects
SecretSelected(e) ==
    e.result.success =>
        /\ IF e.use_default_fingerprint
           THEN /\ e.secret = get_default_fingerprint(hardware)
                /\ Len(e.secret) = FINGERPRINT_LENGTH
                /\ e.result.source = "default_fingerprint"
           ELSE /\ e.secret = e.master_key
                /\ e.result.source = "manual_master_key"
        /\ e.combined_input = (e.secret \o <<"|">>) \o Join(<<"|">>, e.user_keys)

\* C11: the secret is selected by use_default_fingerprint alone (true when
\* left out): with the flag true the password is derived from the
\* fingerprint provider's string, source is 'default_fingerprint', and any two
\* master_key values give the same result; with the flag false the password is
\* derived from master_key verbatim and source is 'manual_master_key'.
SecretByFlag ==
    /\ \A a \in 1..Len(history) : SecretSelected(history[a])
    /\ \A a, b \in 1..Len(history) :
          (/\ history[a].use_default_fingerprint
           /\ history[b].use_default_fingerprint
           /\ history[a].user_keys = history[b].user_keys
           /\ history[a].length = history[b].length)
              => history[a].result = history[b].result

SecretByFlagWitness ==
    \E a, b, c \in 1..Len(history) :
        /\ history[a].use_default_fingerprint
        /\ history[b].use_default_fingerprint
        /\ history[a].master_key = <<>>
        /\ history[b].master_key # <<>>
        /\ history[a].result.success /\ history[b].result.success
        /\ history[a].result.password = history[b].result.password
        /\ history[a].result.source = "default_fingerprint"
        /\ ~history[c].use_default_fingerprint
        /\ history[c].result.success
        /\ history[c].secret = history[c].master_key
        /\ history[c].result.source = "manual_master_key"

====
